---- MODULE Spec2Model ----
(***************************************************************************)
(* A model of src/fakedb.js: the Subscription entity (thread insertion,    *)
(* ordering, sid generation, episode selectors) and the Database aggregate *)
(* (add, remove, sort, download dispatch).                                 *)
(*                                                                         *)
(* JavaScript values are represented as follows.                           *)
(*   - a string is a sequence of one-character strings;                    *)
(*   - a number is a record [k, v]: k = "fin" with the integer value v,    *)
(*     k = "nan" for NaN, k = "inf" for Infinity; `undefined` (the value   *)
(*     of a missing array element) is k = "undef";                         *)
(*   - an object (Thread, Subscription) is a reference: an index into a    *)
(*     table of objects, so that identity and contents are distinct.       *)
(***************************************************************************)
EXTENDS Integers, Sequences, FiniteSets, TLC

VARIABLES
    heap,           \* the Subscription objects: reference -> fields
    subscriptions,  \* Database.subscriptions: a sequence of references
    call,           \* the last call made: operation, arguments, state before
    ret,            \* what the last call returned or reported
    tasks,          \* child processes spawned by Database.download
    hung            \* TRUE once a call does not return (generateSid loop)

vars == <<heap, subscriptions, call, ret, tasks, hung>>

----------------------------------------------------------------------------
(* Bounds of the model. *)

MaxThreads == 3
MaxTokens == 2
MaxSubscriptions == 3
MaxExisted == 2
MaxTasks == 2
HashRange == 7

----------------------------------------------------------------------------
(* Strings and numbers. *)

Fin(n) == [k |-> "fin", v |-> n]
NaN == [k |-> "nan", v |-> 0]
Infinity == [k |-> "inf", v |-> 0]
Undefined == [k |-> "undef", v |-> 0]

\* UTF-16 code unit of a character.
CharCode(c) ==
    CASE c = "," -> 44
      [] c = "." -> 46
      [] c = "0" -> 48
      [] c = "1" -> 49
      [] c = "2" -> 50
      [] c = "3" -> 51
      [] c = "4" -> 52
      [] c = "5" -> 53
      [] c = "6" -> 54
      [] c = "7" -> 55
      [] c = "8" -> 56
      [] c = "9" -> 57
      [] c = "I" -> 73
      [] c = "N" -> 78
      [] c = "a" -> 97
      [] c = "b" -> 98
      [] c = "d" -> 100
      [] c = "e" -> 101
      [] c = "f" -> 102
      [] c = "i" -> 105
      [] c = "j" -> 106
      [] c = "k" -> 107
      [] c = "l" -> 108
      [] c = "n" -> 110
      [] c = "t" -> 116
      [] c = "u" -> 117
      [] c = "y" -> 121

DigitChars == <<"0", "1", "2", "3", "4", "5", "6", "7", "8", "9">>

IsDigit(c) == \E i \in 1..10 : DigitChars[i] = c

DigitValue(c) == (CHOOSE i \in 1..10 : DigitChars[i] = c) - 1

\* String comparison by code units, as the default comparator of
\* Array.prototype.sort does.
RECURSIVE StrLess(_, _)
StrLess(s, t) ==
    IF t = <<>> THEN FALSE
    ELSE IF s = <<>> THEN TRUE
    ELSE IF CharCode(Head(s)) # CharCode(Head(t))
         THEN CharCode(Head(s)) < CharCode(Head(t))
    ELSE StrLess(Tail(s), Tail(t))

\* String(n) for a non-negative integer.
RECURSIVE Digits(_)
Digits(n) ==
    IF n < 10 THEN <<DigitChars[n + 1]>>
    ELSE Digits(n \div 10) \o <<DigitChars[(n % 10) + 1]>>

\* String(x) for a number.
NumberToString(x) ==
    CASE x.k = "fin" -> Digits(x.v)
      [] x.k = "nan" -> <<"N", "a", "N">>
      [] x.k = "inf" -> <<"I", "n", "f", "i", "n", "i", "t", "y">>
      [] x.k = "undef" -> <<"u", "n", "d", "e", "f", "i", "n", "e", "d">>

RECURSIVE DigitsValue(_, _)
DigitsValue(s, acc) ==
    IF s = <<>> THEN acc
    ELSE DigitsValue(Tail(s), acc * 10 + DigitValue(Head(s)))

\* Number(s): the empty string is 0, a run of decimal digits is its value,
\* a string with a letter or with two dots is NaN.  (Strings with a single
\* decimal point denote fractions; the selectors of this model hold none.)
Number(s) ==
    IF \A i \in 1..Len(s) : IsDigit(s[i])
    THEN Fin(DigitsValue(s, 0))
    ELSE NaN

\* The global isFinite, applied to a number.
isFinite(x) == x.k = "fin"

\* s.split(',')
RECURSIVE SplitComma(_, _)
SplitComma(s, cur) ==
    IF s = <<>> THEN <<cur>>
    ELSE IF Head(s) = "," THEN <<cur>> \o SplitComma(Tail(s), <<>>)
    ELSE SplitComma(Tail(s), Append(cur, Head(s)))

RECURSIVE DropDots(_)
DropDots(s) ==
    IF s # <<>> /\ Head(s) = "." THEN DropDots(Tail(s)) ELSE s

\* s.split(/\.{2,}/): a run of two or more dots separates, a single dot
\* stays in its piece.
RECURSIVE SplitDots(_, _)
SplitDots(s, cur) ==
    IF s = <<>> THEN <<cur>>
    ELSE IF Len(s) >= 2 /\ s[1] = "." /\ s[2] = "."
         THEN <<cur>> \o SplitDots(DropDots(s), <<>>)
    ELSE SplitDots(Tail(s), Append(cur, Head(s)))

\* parts.join(',')
RECURSIVE Join(_)
Join(parts) ==
    IF parts = <<>> THEN <<>>
    ELSE IF Len(parts) = 1 THEN parts[1]
    ELSE parts[1] \o <<",">> \o Join(Tail(parts))

\* The default comparator: undefined last, the others by their strings.
DefaultAfterNumbers(a, b) ==
    IF a.k = "undef" THEN b.k # "undef"
    ELSE IF b.k = "undef" THEN FALSE
    ELSE StrLess(NumberToString(b), NumberToString(a))

DefaultAfterStrings(a, b) == StrLess(b, a)

\* a - b, for the comparator of Subscription.sort; a result that is not a
\* positive finite number does not move an element.
Minus(a, b) ==
    IF a.k = "fin" /\ b.k = "fin" THEN Fin(a.v - b.v)
    ELSE IF a.k = "inf" /\ b.k = "fin" THEN Infinity
    ELSE NaN

IsPositive(x) == x.k = "inf" \/ (x.k = "fin" /\ x.v > 0)

\* ep[i] of a zero-based JavaScript index; undefined when out of range.
At(ep, i) == IF i >= 0 /\ i < Len(ep) THEN ep[i + 1] ELSE Undefined

\* ep.includes(x): SameValueZero, so NaN is found by NaN.
Includes(ep, x) == \E i \in 1..Len(ep) : ep[i] = x

----------------------------------------------------------------------------
(* The Thread objects that callers hand to Subscription.add.  A reference  *)
(* is an index of this table; contents never change.  As in the Thread     *)
(* type of the data model, ep is a non-empty array of numbers.  Threads 6  *)
(* to 9 are the ones add must reject; thread 10 is another object with the *)
(* contents of thread 1.                                                   *)

ThreadObj == <<
    [title |-> "E1", link |-> "l1", ep |-> <<Fin(1)>>],
    [title |-> "E2", link |-> "l2", ep |-> <<Fin(2)>>],
    [title |-> "E2-3", link |-> "l23", ep |-> <<Fin(2), Fin(3)>>],
    [title |-> "E9", link |-> "l9", ep |-> <<Fin(9)>>],
    [title |-> "E10", link |-> "l10", ep |-> <<Fin(10)>>],
    [title |-> "Bad", link |-> "l3", ep |-> <<NaN>>],
    [title |-> "Bad", link |-> "l4", ep |-> <<Fin(4), Infinity>>],
    [title |-> "", link |-> "l5", ep |-> <<Fin(5)>> ],
    [title |-> "E6", link |-> "", ep |-> <<Fin(6)>> ],
    [title |-> "E1", link |-> "l1", ep |-> <<Fin(1)>>] >>

ThreadRefs == 1..Len(ThreadObj)

Ep(t) == ThreadObj[t].ep

\* A comparator the wrong way round: (a, b) => a.ep[0] - b.ep[0].
AscendingThreadsAfter(a, b) == IsPositive(Minus(At(Ep(a), 0), At(Ep(b), 0)))

\* The comparator of Subscription.sort, (a, b) => b.ep[0] - a.ep[0].
SortThreadsAfter(a, b) == IsPositive(Minus(At(Ep(b), 0), At(Ep(a), 0)))

\* comparator(a, b) > 0, for the comparators the code sorts with: its two
\* explicit ones (threads by ep[0], subscriptions by latest) and the default
\* one on strings and on numbers.
After(cmp, a, b) ==
    CASE cmp.kind = "threads" -> SortThreadsAfter(a, b)
      [] cmp.kind = "strings" -> DefaultAfterStrings(a, b)
      [] cmp.kind = "numbers" -> DefaultAfterNumbers(a, b)
      [] cmp.kind = "latest" -> IsPositive(Minus(cmp.latest[b], cmp.latest[a]))

\* Array.prototype.sort: x is placed after the last element it does not
\* have to precede.  The sort is stable (ECMAScript 2019; before that, V8
\* sorted arrays of ten elements or fewer by insertion, which is stable).
RECURSIVE InsertSorted(_, _, _)
InsertSorted(sorted, x, cmp) ==
    IF sorted # <<>> /\ After(cmp, sorted[Len(sorted)], x)
    THEN Append(InsertSorted(SubSeq(sorted, 1, Len(sorted) - 1), x, cmp),
                sorted[Len(sorted)])
    ELSE Append(sorted, x)

RECURSIVE SortWith(_, _)
SortWith(seq, cmp) ==
    IF seq = <<>> THEN <<>>
    ELSE InsertSorted(SortWith(SubSeq(seq, 1, Len(seq) - 1), cmp),
                      seq[Len(seq)], cmp)


----------------------------------------------------------------------------
(* class Subscription *)

\* A value no string equals: the initial sid.
Null == <<"null">>

\* new Subscription(subscribable), subscribable a string.
SubscriptionFromString(subscribable) ==
    LET parts == SplitComma(subscribable, <<>>)
    IN  [name |-> Head(parts),
         keywords |-> SortWith(Tail(parts), [kind |-> "strings"]),
         sid |-> Null,
         threads |-> <<>>,
         latest |-> Fin(-1)]

\* Subscription.sort: the new value of threads.
SortedThreads(threads) == SortWith(threads, [kind |-> "threads"])

\* The test of Subscription.add without its last conjunct.
IsValidThreadIgnoringLink(t) ==
    /\ \A i \in 1..Len(Ep(t)) : isFinite(Ep(t)[i])
    /\ ThreadObj[t].title # ""

\* The test of Subscription.add.
IsValidThread(t) ==
    /\ \A i \in 1..Len(Ep(t)) : isFinite(Ep(t)[i])
    /\ ThreadObj[t].title # ""
    /\ ThreadObj[t].link # ""

\* The first element where the last is meant: ep.slice(0, 1)[0].
FirstOf(ep) == At(ep, 0)

\* ep.slice(-1)[0]
LastOf(ep) == At(ep, Len(ep) - 1)

\* Subscription.add(thread): the subscription afterwards.
SubscriptionAdd(s, t) ==
    IF IsValidThread(t)
    THEN LET sorted == SortedThreads(Append(s.threads, t))
         IN  [s EXCEPT !.threads = sorted, !.latest = LastOf(Ep(sorted[1]))]
    ELSE s

\* hash(a, b) of ./utils: a deterministic function of its two strings, here
\* a polynomial of their code units reduced to HashRange values.
RECURSIVE Weight(_, _)
Weight(s, acc) ==
    IF s = <<>> THEN acc
    ELSE Weight(Tail(s), (acc * 31 + CharCode(Head(s))) % HashRange)

hash(a, b) == Digits(Weight(b, Weight(a, 0)))

Sids == { Digits(n) : n \in 0..(HashRange - 1) }

\* An `if` where the loop is: one rehash at most.
RehashOnce(name, sid, existed, tried) ==
    [returns |-> TRUE,
     sid |-> IF sid \in existed THEN hash(name, sid) ELSE sid]

\* The loop of Subscription.generateSid.  It is deterministic in sid, so it
\* never ends once it meets a sid a second time (tried holds those met).
RECURSIVE Rehash(_, _, _, _)
Rehash(name, sid, existed, tried) ==
    IF sid \notin existed THEN [returns |-> TRUE, sid |-> sid]
    ELSE IF sid \in tried THEN [returns |-> FALSE, sid |-> sid]
    ELSE Rehash(name, hash(name, sid), existed, tried \cup {sid})

\* Subscription.generateSid(existedSids): whether it returns, and this.sid.
generateSid(s, existedSids) ==
    Rehash(s.name, hash(s.name, Join(s.keywords)), existedSids, {})

\* XSet.union(iterable, true) of ./utils: a Set keeps its elements in the
\* order of their first insertion.
RECURSIVE XSetUnion(_, _)
XSetUnion(collection, items) ==
    IF items = <<>> THEN collection
    ELSE XSetUnion(IF \E i \in 1..Len(collection) : collection[i] = Head(items)
                   THEN collection
                   ELSE Append(collection, Head(items)),
                   Tail(items))

\* threads.findIndex(th => th.ep.includes(x)), zero-based, -1 when none.
FindIndex(threads, x) ==
    IF \E i \in 1..Len(threads) : Includes(Ep(threads[i]), x)
    THEN (CHOOSE i \in 1..Len(threads) :
            /\ Includes(Ep(threads[i]), x)
            /\ \A j \in 1..(i - 1) : ~Includes(Ep(threads[j]), x)) - 1
    ELSE -1

\* Array.prototype.slice(start, end) with its relative indices.
Slice(seq, start, end) ==
    LET len == Len(seq)
        from == IF start < 0 THEN (IF len + start < 0 THEN 0 ELSE len + start)
                ELSE (IF start > len THEN len ELSE start)
        to == IF end < 0 THEN (IF len + end < 0 THEN 0 ELSE len + end)
              ELSE (IF end > len THEN len ELSE end)
    IN  SubSeq(seq, from + 1, to)

MapNumber(parts) == [i \in 1..Len(parts) |-> Number(parts[i])]

ThreadsWith(threads, x) ==
    SelectSeq(threads, LAMBDA th : Includes(Ep(th), x))

\* The threads one token of the selector adds (the body of the for loop).
TokenThreads(threads, ep) ==
    IF isFinite(Number(ep))
    THEN ThreadsWith(threads, Number(ep))
    ELSE LET sorted == SortWith(MapNumber(SplitDots(ep, <<>>)),
                                [kind |-> "numbers"])
             epi == At(sorted, 0)
             epj == At(sorted, 1)
             head == FindIndex(threads, epj)
             tail == FindIndex(threads, epi)
         IN  Slice(threads, head, tail + 1)

\* The loop with a plain concatenation where the union is.
RECURSIVE ConcatTokens(_, _, _)
ConcatTokens(threads, eps, collection) ==
    IF eps = <<>> THEN collection
    ELSE ConcatTokens(threads, Tail(eps),
                      collection \o TokenThreads(threads, Head(eps)))

RECURSIVE CollectTokens(_, _, _)
CollectTokens(threads, eps, collection) ==
    IF eps = <<>> THEN collection
    ELSE CollectTokens(threads, Tail(eps),
                       XSetUnion(collection, TokenThreads(threads, Head(eps))))

All == <<"a", "l", "l">>

\* Subscription.getThreads(epstr)
getThreads(s, epstr) ==
    IF epstr = <<>> \/ epstr = All THEN s.threads
    ELSE CollectTokens(s.threads, SplitComma(epstr, <<>>), <<>>)

----------------------------------------------------------------------------
(* class Database *)

SidsOf(h, subs) == { h[subs[i]].sid : i \in 1..Len(subs) }

\* subscriptions.findIndex(elem => elem.sid === sid), zero-based.
FindSid(h, subs, sid) ==
    IF \E i \in 1..Len(subs) : h[subs[i]].sid = sid
    THEN (CHOOSE i \in 1..Len(subs) :
            /\ h[subs[i]].sid = sid
            /\ \A j \in 1..(i - 1) : h[subs[j]].sid # sid) - 1
    ELSE -1

\* subscriptions.splice(index): everything from index on is removed.
SpliceToEnd(subs, index) == SubSeq(subs, 1, index)

\* subscriptions.splice(index, 1)
Splice(subs, index) ==
    SubSeq(subs, 1, index) \o SubSeq(subs, index + 2, Len(subs))

\* Database.isSupportedClient
isSupportedClient(client) == client \in {"aria2", "deluge"}

\* Config.get of ./config: the defaults of Database.download.
ConfigGet(key) ==
    CASE key = "destination" -> "~/Downloads"
      [] key = "client" -> "deluge"
      [] key = "jsonrpc" -> "http://localhost:6800/jsonrpc"

\* value || fallback
OrElse(value, fallback) == IF value = "" THEN fallback ELSE value

\* The child process Database.download spawns for its arguments.
SpawnedTask(thread, options) ==
    [script |-> OrElse(options.client, ConfigGet("client")),
     thread |-> thread,
     dest |-> OrElse(options.destination, ConfigGet("destination")),
     jsonrpc |-> OrElse(options.jsonrpc, ConfigGet("jsonrpc")),
     promise |-> "pending",
     value |-> Undefined]

----------------------------------------------------------------------------
(* The calls.  call names the operation and its arguments; ret tells how  *)
(* it ended (kind "returned" or "thrown"), the value returned or thrown,   *)
(* and what it wrote to the console.                                       *)

NoCall == [op |-> "none", sub |-> 0, arg |-> <<>>]
NoRet == [kind |-> "none", val |-> <<>>, log |-> ""]
Returned(v) == [kind |-> "returned", val |-> v, log |-> ""]
Logged(msg) == [kind |-> "returned", val |-> <<>>, log |-> msg]
Thrown(v) == [kind |-> "thrown", val |-> v, log |-> ""]

InvalidThreadMsg == "Can't add invalid thread into subscription"
AddedMsg == "Add subscription successfully."
RemovedMsg == "Remove subscription successfully."

SubRefs == 1..Len(heap)

RECURSIVE TotalThreads(_)
TotalThreads(h) ==
    IF h = <<>> THEN 0 ELSE Len(Head(h).threads) + TotalThreads(Tail(h))

\* s.add(thread)
SubAdd(s, t) ==
    /\ ~hung
    /\ IsValidThread(t) => TotalThreads(heap) < MaxThreads
    /\ heap' = [heap EXCEPT ![s] = SubscriptionAdd(heap[s], t)]
    /\ call' = [op |-> "Subscription.add", sub |-> s, arg |-> t]
    /\ ret' = IF IsValidThread(t) THEN Returned(<<>>)
              ELSE Logged(InvalidThreadMsg)
    /\ UNCHANGED <<subscriptions, tasks, hung>>

\* s.sort()
SubSort(s) ==
    /\ ~hung
    /\ heap' = [heap EXCEPT ![s].threads = SortedThreads(heap[s].threads)]
    /\ call' = [op |-> "Subscription.sort", sub |-> s, arg |-> <<>>]
    /\ ret' = Returned(<<>>)
    /\ UNCHANGED <<subscriptions, tasks, hung>>

\* s.generateSid(existedSids)
SubGenerateSid(s, existedSids) ==
    /\ ~hung
    /\ LET g == generateSid(heap[s], existedSids)
       IN  /\ heap' = [heap EXCEPT ![s].sid = g.sid]
           /\ hung' = ~g.returns
           /\ ret' = IF g.returns THEN Returned(<<>>) ELSE NoRet
    /\ call' = [op |-> "Subscription.generateSid", sub |-> s,
                arg |-> existedSids]
    /\ UNCHANGED <<subscriptions, tasks>>

\* s.getThreads(epstr)
SubGetThreads(s, epstr) ==
    /\ ~hung
    /\ call' = [op |-> "Subscription.getThreads", sub |-> s, arg |-> epstr]
    /\ ret' = Returned(getThreads(heap[s], epstr))
    /\ UNCHANGED <<heap, subscriptions, tasks, hung>>

\* The body of Database.add for a Subscription argument: generateSid against
\* the sids of the list, then push.  When generateSid does not return,
\* nothing after it happens.
DatabaseAdd(h, subs, s) ==
    LET g == generateSid(h[s], SidsOf(h, subs))
    IN  [heap |-> [h EXCEPT ![s].sid = g.sid],
         subscriptions |-> IF g.returns THEN Append(subs, s) ELSE subs,
         returns |-> g.returns]

\* db.add(subscription); the reference 0 stands for an argument that is
\* not a Subscription.
DbAdd(s) ==
    /\ ~hung
    /\ Len(subscriptions) < MaxSubscriptions
    /\ call' = [op |-> "Database.add", sub |-> s, arg |-> <<>>]
    /\ IF s = 0
       THEN /\ ret' = Thrown("TypeError")
            /\ UNCHANGED <<heap, subscriptions, hung>>
       ELSE LET after == DatabaseAdd(heap, subscriptions, s)
            IN  /\ heap' = after.heap
                /\ subscriptions' = after.subscriptions
                /\ hung' = ~after.returns
                /\ ret' = IF after.returns THEN Logged(AddedMsg) ELSE NoRet
    /\ UNCHANGED tasks

\* db.remove(subscription)
DbRemove(s) ==
    /\ ~hung
    /\ call' = [op |-> "Database.remove", sub |-> s, arg |-> <<>>]
    /\ IF s = 0
       THEN /\ ret' = Thrown("TypeError")
            /\ UNCHANGED subscriptions
       ELSE LET index == FindSid(heap, subscriptions, heap[s].sid)
            IN  /\ subscriptions' = IF index >= 0
                                    THEN Splice(subscriptions, index)
                                    ELSE subscriptions
                /\ ret' = IF index >= 0 THEN Logged(RemovedMsg)
                          ELSE Returned(<<>>)
    /\ UNCHANGED <<heap, tasks, hung>>

\* db.sort()
DbSort ==
    /\ ~hung
    /\ heap' = [r \in DOMAIN heap |->
                  IF \E i \in 1..Len(subscriptions) : subscriptions[i] = r
                  THEN [heap[r] EXCEPT !.threads = SortedThreads(heap[r].threads)]
                  ELSE heap[r]]
    /\ subscriptions' =
          SortWith(subscriptions,
                   [kind |-> "latest",
                    latest |-> [r \in DOMAIN heap |-> heap[r].latest]])
    /\ call' = [op |-> "Database.sort", sub |-> 0, arg |-> <<>>]
    /\ ret' = Returned(<<>>)
    /\ UNCHANGED <<tasks, hung>>

Clients == {"", "aria2", "deluge", "ftp"}
Destinations == {"", "/tmp"}
DownloadThreads == {1, 3}

\* db.download(thread, {client, destination, jsonrpc}); "" is an option
\* that is not given.
DbDownload(thread, options) ==
    /\ ~hung
    /\ Len(tasks) < MaxTasks
    /\ tasks' = Append(tasks, SpawnedTask(thread, options))
    /\ call' = [op |-> "Database.download", sub |-> 0, arg |-> options]
    /\ ret' = Returned(Len(tasks) + 1)
    /\ UNCHANGED <<heap, subscriptions, hung>>

\* The 'close' event of a child process: the promise is settled once.
TaskClose(i, code) ==
    /\ tasks[i].promise = "pending"
    /\ tasks' = [tasks EXCEPT ![i].promise =
                    IF code = 0 THEN "resolved" ELSE "rejected",
                                ![i].value = Fin(code)]
    /\ UNCHANGED <<heap, subscriptions, call, ret, hung>>

\* The 'error' event of a child process that could not be launched.
TaskError(i) ==
    /\ tasks[i].promise = "pending"
    /\ tasks' = [tasks EXCEPT ![i].promise = "rejected",
                                ![i].value = [k |-> "error", v |-> 0]]
    /\ UNCHANGED <<heap, subscriptions, call, ret, hung>>

----------------------------------------------------------------------------
(* Specifications.  Each starts from Subscription objects just made by    *)
(* `new Subscription(string)` and a Database made on an absent file.       *)

Subscribables == <<
    <<"a", ",", "k", ",", "j">>,
    <<"a", ",", "j", ",", "k">>,
    <<"b">>,
    <<"a">>,
    <<"b", ",", "k">>,
    <<"n">> >>

NewSubscriptions(n) == [i \in 1..n |-> SubscriptionFromString(Subscribables[i])]

\* Threads of subscriptions: two subscriptions that the database holds
\* (db.add of each was called), then add and sort calls.
SubscribedTwo ==
    LET first == DatabaseAdd(NewSubscriptions(2), <<>>, 1)
    IN  DatabaseAdd(first.heap, first.subscriptions, 2)

InitSub ==
    /\ heap = SubscribedTwo.heap
    /\ subscriptions = SubscribedTwo.subscriptions
    /\ call = NoCall
    /\ ret = NoRet
    /\ tasks = <<>>
    /\ hung = FALSE

NextSub ==
    \/ \E s \in SubRefs, t \in ThreadRefs : SubAdd(s, t)
    \/ \E s \in SubRefs : SubSort(s)
    \/ DbSort

SpecSub == InitSub /\ [][NextSub]_vars

\* Selectors: one subscription, add and getThreads calls.
NumberTokens == { 2, 9 }
RangeTokens == { <<1, 9>>, <<9, 2>>, <<9, 10>>, <<10, 9>> }

Tokens ==
    { Digits(n) : n \in NumberTokens }
    \cup { Digits(r[1]) \o <<".", ".">> \o Digits(r[2]) : r \in RangeTokens }

RECURSIVE Selectors(_)
Selectors(n) ==
    IF n = 1 THEN Tokens
    ELSE Selectors(n - 1)
         \cup { s \o <<",">> \o t : s \in Selectors(n - 1), t \in Tokens }

TokenSelectors == Selectors(MaxTokens)

Epstrs == TokenSelectors \cup { <<>>, All }

InitSel ==
    /\ heap = NewSubscriptions(1)
    /\ subscriptions = <<>>
    /\ call = NoCall
    /\ ret = NoRet
    /\ tasks = <<>>
    /\ hung = FALSE

\* getThreads changes nothing of the subscription, so a second query right
\* after a query reaches no state that the first one does not reach: only
\* the first of consecutive queries is explored.
NextSel ==
    \/ \E t \in ThreadRefs : SubAdd(1, t)
    \/ /\ call.op # "Subscription.getThreads"
       /\ \E epstr \in Epstrs : SubGetThreads(1, epstr)

SpecSel == InitSel /\ [][NextSel]_vars

\* The database: three subscriptions, two of them with the same name and
\* keywords, and add and remove calls.
InitDb ==
    /\ heap = NewSubscriptions(3)
    /\ subscriptions = <<>>
    /\ call = NoCall
    /\ ret = NoRet
    /\ tasks = <<>>
    /\ hung = FALSE

NextDb ==
    \/ \E s \in 0..Len(heap) : DbAdd(s)
    \/ \E s \in 0..Len(heap) : DbRemove(s)

SpecDb == InitDb /\ [][NextDb]_vars

\* generateSid alone: one subscription and any set of existing sids.
ExistedSets == { e \in SUBSET Sids : Cardinality(e) <= MaxExisted }

InitSid ==
    /\ \E i \in 1..Len(Subscribables) :
          heap = <<SubscriptionFromString(Subscribables[i])>>
    /\ subscriptions = <<>>
    /\ call = NoCall
    /\ ret = NoRet
    /\ tasks = <<>>
    /\ hung = FALSE

NextSid == \E existedSids \in ExistedSets : SubGenerateSid(1, existedSids)

SpecSid == InitSid /\ [][NextSid]_vars

\* Downloads: calls of Database.download and the events of the children.
InitDl ==
    /\ heap = NewSubscriptions(1)
    /\ subscriptions = <<>>
    /\ call = NoCall
    /\ ret = NoRet
    /\ tasks = <<>>
    /\ hung = FALSE

NextDl ==
    \/ \E thread \in DownloadThreads, client \in Clients, dest \in Destinations :
          DbDownload(thread, [client |-> client, destination |-> dest,
                              jsonrpc |-> ""])
    \/ \E i \in 1..Len(tasks), code \in {0, 1} : TaskClose(i, code)
    \/ \E i \in 1..Len(tasks) : TaskError(i)

SpecDl == InitDl /\ [][NextDl]_vars

----------------------------------------------------------------------------
(* Properties. *)

FirstEp(t) == ThreadObj[t].ep[1]
FinalEp(t) == ThreadObj[t].ep[Len(ThreadObj[t].ep)]

\* The invalid threads of the specification: a non-finite episode, an empty
\* title or an empty link.
InvalidThread(t) ==
    \/ \E i \in 1..Len(ThreadObj[t].ep) : ThreadObj[t].ep[i].k # "fin"
    \/ ThreadObj[t].title = ""
    \/ ThreadObj[t].link = ""

C2_LatestIsLastOfTop ==
    \A s \in SubRefs :
        heap[s].latest = IF heap[s].threads = <<>> THEN Fin(-1)
                         ELSE FinalEp(heap[s].threads[1])

\* Database.sort has just exchanged the two subscriptions, and the top
\* thread of one of them is a batch (its last episode is not its first).
C2_Witness ==
    /\ call.op = "Database.sort"
    /\ subscriptions = <<2, 1>>
    /\ heap[1].threads # <<>>
    /\ heap[2].threads # <<>>
    /\ FinalEp(heap[2].threads[1]) # FirstEp(heap[2].threads[1])
    /\ heap[1].latest = Fin(-1) \/ heap[1].latest.v < heap[2].latest.v

\* C3: Subscription.add with an invalid thread leaves threads and latest
\* (indeed every subscription) as they were, and reports the rejection on
\* the console without throwing.
C3_InvalidAddRejected ==
    [][(call'.op = "Subscription.add" /\ InvalidThread(call'.arg))
          => /\ heap'[call'.sub].threads = heap[call'.sub].threads
             /\ heap'[call'.sub].latest = heap[call'.sub].latest
             /\ heap' = heap
             /\ ret'.kind = "returned"
             /\ ret'.log = InvalidThreadMsg]_vars

\* An invalid thread was offered to a subscription that holds threads.
C3_Witness ==
    /\ call.op = "Subscription.add"
    /\ InvalidThread(call.arg)
    /\ Len(heap[call.sub].threads) >= 2
    /\ ret.log = InvalidThreadMsg

Positions(subs) == 1..Len(subs)

\* C4: after any sequence of Database.add and Database.remove calls with
\* Subscription arguments, the sids of the entries of the list are pairwise
\* distinct, and a Database.add does not change the sid of a subscription
\* that is already in the list.
C4_SidsDistinctAndStable ==
    [][/\ \A i, j \in Positions(subscriptions') :
              i # j => heap'[subscriptions'[i]].sid # heap'[subscriptions'[j]].sid
       /\ call'.op = "Database.add"
              => \A i \in Positions(subscriptions) :
                    heap'[subscriptions[i]].sid = heap[subscriptions[i]].sid]_vars

\* The chain of candidate sids: h0 = hash(name, joined keywords),
\* h(k+1) = hash(name, h(k)).
RECURSIVE ChainAt(_, _)
ChainAt(s, k) ==
    IF k = 0 THEN hash(s.name, Join(s.keywords))
    ELSE hash(s.name, ChainAt(s, k - 1))

\* C5: whenever generateSid(existingSids) returns, sid is the first element
\* of the chain that is not in existingSids (so it is not in existingSids).
C5_SidIsFirstFreeOfChain ==
    (call.op = "Subscription.generateSid" /\ ret.kind = "returned")
        => /\ heap[call.sub].sid \notin call.arg
           /\ \E k \in 0..Cardinality(call.arg) :
                 /\ heap[call.sub].sid = ChainAt(heap[call.sub], k)
                 /\ \A j \in 0..(k - 1) : ChainAt(heap[call.sub], j) \in call.arg

\* generateSid returned the third element of the chain.
C5_Witness ==
    /\ call.op = "Subscription.generateSid"
    /\ ret.kind = "returned"
    /\ ChainAt(heap[call.sub], 0) \in call.arg
    /\ ChainAt(heap[call.sub], 1) \in call.arg
    /\ heap[call.sub].sid = ChainAt(heap[call.sub], 2)

RangeString(a, b) == Digits(a) \o <<".", ".">> \o Digits(b)

Min(a, b) == IF a <= b THEN a ELSE b
Max(a, b) == IF a >= b THEN a ELSE b

Holds(threads, n) ==
    \E i \in 1..Len(threads) :
        \E j \in 1..Len(ThreadObj[threads[i]].ep) : ThreadObj[threads[i]].ep[j] = Fin(n)

\* The position of the first thread whose ep contains n.
FirstHolding(threads, n) ==
    CHOOSE i \in 1..Len(threads) :
        /\ Holds(<<threads[i]>>, n)
        /\ \A j \in 1..(i - 1) : ~Holds(<<threads[j]>>, n)

Distinct(seq) == \A i, j \in 1..Len(seq) : i # j => seq[i] # seq[j]

\* C6: for a range token A..B, A and B in either order and of any number of
\* digits, with lo = min(A, B) and hi = max(A, B) both held by some thread,
\* getThreads returns threads[head..tail], head the first thread holding hi
\* and tail the first thread holding lo.  (Stated for thread lists that
\* hold no thread twice.)
C6_RangeIsInclusiveSlice ==
    \A r \in RangeTokens :
        LET threads == heap[1].threads
            lo == Min(r[1], r[2])
            hi == Max(r[1], r[2])
        IN  (/\ call.op = "Subscription.getThreads"
             /\ call.arg = RangeString(r[1], r[2])
             /\ Distinct(threads)
             /\ Holds(threads, lo)
             /\ Holds(threads, hi))
                => /\ ret.kind = "returned"
                   /\ ret.val = SubSeq(threads, FirstHolding(threads, hi),
                                       FirstHolding(threads, lo))

\* C7: when getThreads is given a range token A..B and no thread holds one
\* of A and B, the call ends with an error and returns no threads.
C7_MissingBoundaryIsError ==
    \A r \in RangeTokens :
        (/\ call.op = "Subscription.getThreads"
         /\ \E i \in 1..Len(SplitComma(call.arg, <<>>)) :
               SplitComma(call.arg, <<>>)[i] = RangeString(r[1], r[2])
         /\ ~(Holds(heap[1].threads, r[1]) /\ Holds(heap[1].threads, r[2])))
            => ret.kind = "thrown"

\* C8: Database.download with a client other than "aria2" and "deluge"
\* spawns no process: every process spawned is for one of the two.
C8_NoSpawnForUnsupportedClient ==
    \A i \in 1..Len(tasks) : tasks[i].script \in {"aria2", "deluge"}

\* What the tokens of a selector find, one after the other, repetitions
\* included.
RECURSIVE Encountered(_, _)
Encountered(threads, eps) ==
    IF eps = <<>> THEN <<>>
    ELSE TokenThreads(threads, Head(eps)) \o Encountered(threads, Tail(eps))

FirstAt(seq, x) ==
    CHOOSE i \in 1..Len(seq) : seq[i] = x /\ \A j \in 1..(i - 1) : seq[j] # x

\* C9: for a selector of comma-separated number and range tokens, the
\* sequence getThreads returns holds each thread found once, in the order
\* in which the tokens, left to right, first find them.
C9_UnionInFirstEncounterOrder ==
    (call.op = "Subscription.getThreads" /\ call.arg \in TokenSelectors)
        => LET found == Encountered(heap[1].threads, SplitComma(call.arg, <<>>))
           IN  /\ ret.kind = "returned"
               /\ Distinct(ret.val)
               /\ { ret.val[i] : i \in 1..Len(ret.val) }
                     = { found[i] : i \in 1..Len(found) }
               /\ \A i, j \in 1..Len(ret.val) :
                     i < j => FirstAt(found, ret.val[i]) < FirstAt(found, ret.val[j])

\* Two overlapping tokens found some thread twice, and two threads or more
\* were returned.
C9_Witness ==
    /\ call.op = "Subscription.getThreads"
    /\ call.arg \in TokenSelectors
    /\ Len(ret.val) >= 2
    /\ Len(Encountered(heap[1].threads, SplitComma(call.arg, <<>>))) > Len(ret.val)

Without(seq, i) ==
    [j \in 1..(Len(seq) - 1) |-> IF j < i THEN seq[j] ELSE seq[j + 1]]

\* C10: Database.remove(s) leaves the list as it is when no entry has the
\* sid of s; otherwise it removes the first entry with that sid and nothing
\* else: the others keep their order and their contents.
C10_RemoveFirstMatchOnly ==
    [][(call'.op = "Database.remove" /\ call'.sub # 0)
          => LET sid == heap[call'.sub].sid
                 matches == { i \in Positions(subscriptions) :
                                heap[subscriptions[i]].sid = sid }
             IN  /\ heap' = heap
                 /\ IF matches = {} THEN subscriptions' = subscriptions
                    ELSE \E i \in matches :
                            /\ \A j \in matches : i <= j
                            /\ subscriptions' = Without(subscriptions, i)]_vars

\* A remove has just taken an entry out of a list that keeps two others.
C10_Witness ==
    /\ call.op = "Database.remove"
    /\ ret.log = RemovedMsg
    /\ Len(subscriptions) = 2
    /\ subscriptions[1] # subscriptions[2]

====
